---- MODULE Spec2Model ----
(***************************************************************************)
(* Model of the HaLow link manager of main/task_halow.c: the start/stop    *)
(* lifecycle, halow_connect, the driver's status/link/scan callbacks, the  *)
(* credential store in the "certs" NVS partition and the auto-connect      *)
(* retry loop.                                                             *)
(*                                                                         *)
(* Strings.  A C string is modelled as the prefix of length len of a fixed *)
(* text named id: [id |-> "a", len |-> 32] is a 32-byte ssid.  Two strings *)
(* are equal (strcmp == 0) iff id and len agree; strncpy followed by a     *)
(* forced terminator keeps the first n bytes (Truncate).  The texts named  *)
(* by different ids differ in their first byte.                            *)
(*                                                                         *)
(* Execution contexts.  The command context runs one operation at a time   *)
(* (pc = "idle" between operations); halow_start blocks inside             *)
(* halow_auto_connect at xEventGroupWaitBits and vTaskDelay, which are the *)
(* pc values "ac_wait" and "ac_delay".  The driver context delivers the    *)
(* callbacks at any time.  A handler is one atomic action, except where    *)
(* the two contexts share data with no lock: the scan result callback's    *)
(* increment of scan_count is split into its read and its write, and       *)
(* SpecRace takes halow_connect statement by statement against the status  *)
(* callback.                                                               *)
(*                                                                         *)
(* Not modelled: halow_last_password and the two semaphores, which the     *)
(* code only writes (gives) and never reads (takes); halow_rx_handler and  *)
(* halow_version, which change no state.                                   *)
(***************************************************************************)
EXTENDS Integers, Sequences, FiniteSets, TLC

\* ------------------------------------------------------------ constants

\* task_halow.c:53-54, the sizes of the credential buffers
MAX_SSID_LEN == 32
MAX_PASSWORD_LEN == 64
\* task_halow.c:64
AUTO_CONNECT_MAX_ATTEMPTS == 3
\* mmwlan.h of the Morse Micro SDK (not part of this repository); used at
\* task_halow.c:76-77, 758 and 766.  The SDK sets them to 32 and 100.
MMWLAN_SSID_MAXLEN == 32
MMWLAN_PASSPHRASE_MAXLEN == 100
\* uint16_t scan_count, task_halow.c:75
UINT16_MOD == 65536
\* task_halow.c:47
HALOW_COUNTRY_CODE == "US"

\* bounds of the model
MaxScanResults == 3
MaxOutstandingScans == 2

\* event bits, task_halow.c:50-52
HALOW_CONNECTED_BIT == "CONNECTED"
HALOW_FAIL_BIT == "FAIL"
HALOW_SCAN_DONE_BIT == "SCAN_DONE"

\* enum mmwlan_sta_state, the index into sta_state_desc (task_halow.c:125-129)
MMWLAN_STA_DISABLED == 0
MMWLAN_STA_CONNECTING == 1
MMWLAN_STA_CONNECTED == 2
StaStates == {MMWLAN_STA_DISABLED, MMWLAN_STA_CONNECTING, MMWLAN_STA_CONNECTED}

\* ------------------------------------------------------------ strings

EmptyStr == [id |-> "", len |-> 0]
\* a NULL char pointer (an absent password)
NullStr == [id |-> "NULL", len |-> 0]
\* an NVS key that was never written
NoKey == [id |-> "NOKEY", len |-> 0]

Str(id, n) == IF n = 0 THEN EmptyStr ELSE [id |-> id, len |-> n]

\* strlen(s) for a non-NULL s
StrLen(s) == s.len

\* strncpy(dst, s, n); dst[n] = '\0'  (dst holds n bytes and the terminator)
Truncate(s, n) == IF s.len <= n THEN Str(s.id, s.len) ELSE Str(s.id, n)

\* the ssids and passwords the command context may pass
SsidLens == {5, 32, 33}
PwLens == {5, 64, 65, 101}
SsidArgs == {Str("a", n) : n \in SsidLens} \cup {EmptyStr}
PwArgs == {Str("p", n) : n \in PwLens} \cup {EmptyStr, NullStr}

\* The arguments explored together with the callbacks and the store: a short
\* and a 32-byte ssid, a short and a 64-byte password, and no password.  The
\* other arguments either end halow_connect before it changes anything or (a
\* password of 65..100 bytes) leave the same pending pair as the 64-byte one.
AssocSsids == {Str("a", 5), Str("a", MAX_SSID_LEN)}
AssocPws == {Str("p", 5), Str("p", MAX_PASSWORD_LEN), NullStr}

\* ------------------------------------------------------------ NVS store
\* The namespace "halow_auto" of partition "certs": keys ssid, password, valid.
\* valid is -1 while the key does not exist.

EmptyNvs == [ssid |-> NoKey, password |-> NoKey, valid |-> -1]

\* The points at which one store operation of a handler may fail.
NvsFaults == {"none", "open_ro", "get_valid", "get_ssid", "get_password",
              "open_rw", "set_ssid", "set_password", "set_valid", "commit"}

\* nvs_get_str(handle, key, buf, &len) with len = buflen: ESP_OK only if the
\* key exists and the value with its terminator fits the buffer
\* (ESP_ERR_NVS_NOT_FOUND, ESP_ERR_NVS_INVALID_LENGTH otherwise).
NvsGetStrOk(val, buflen) == val /= NoKey /\ val.len + 1 <= buflen

\* halow_load_network_config(ssid, password) with the buffer sizes its callers
\* pass; the result is [ok, ssid, password].
LoadFail == [ok |-> FALSE, ssid |-> EmptyStr, password |-> EmptyStr]

\* Faulty variant: a load that takes an unreadable password for an empty one.
LoadIgnoringPassword(store, ssidbuf, pwbuf, fault) ==
    IF fault = "open_ro" THEN LoadFail
    ELSE IF fault = "get_valid" \/ store.valid /= 1 THEN LoadFail
    ELSE IF fault = "get_ssid" \/ ~NvsGetStrOk(store.ssid, ssidbuf) THEN LoadFail
    ELSE IF fault = "get_password" \/ ~NvsGetStrOk(store.password, pwbuf)
      THEN [ok |-> TRUE, ssid |-> store.ssid, password |-> EmptyStr]
    ELSE [ok |-> TRUE, ssid |-> store.ssid, password |-> store.password]

\* Faulty variant: a load that does not look at the valid marker.
LoadIgnoringValid(store, ssidbuf, pwbuf, fault) ==
    IF fault \in {"open_ro", "get_valid"} THEN LoadFail
    ELSE IF fault = "get_ssid" \/ ~NvsGetStrOk(store.ssid, ssidbuf) THEN LoadFail
    ELSE IF fault = "get_password" \/ ~NvsGetStrOk(store.password, pwbuf) THEN LoadFail
    ELSE [ok |-> TRUE, ssid |-> store.ssid, password |-> store.password]

halow_load_network_config(store, ssidbuf, pwbuf, fault) ==
    IF fault = "open_ro" THEN LoadFail
    ELSE IF fault = "get_valid" \/ store.valid /= 1 THEN LoadFail
    ELSE IF fault = "get_ssid" \/ ~NvsGetStrOk(store.ssid, ssidbuf) THEN LoadFail
    ELSE IF fault = "get_password" \/ ~NvsGetStrOk(store.password, pwbuf) THEN LoadFail
    ELSE [ok |-> TRUE, ssid |-> store.ssid, password |-> store.password]

\* halow_should_save_network_config(ssid, password): saved_ssid[MAX_SSID_LEN],
\* saved_password[MAX_PASSWORD_LEN]
halow_should_save_network_config(store, ssid, password, fault) ==
    LET saved == halow_load_network_config(store, MAX_SSID_LEN, MAX_PASSWORD_LEN, fault)
        new_password == IF password = NullStr THEN EmptyStr ELSE password
    IN  IF ~saved.ok THEN TRUE
        ELSE IF saved.ssid /= ssid THEN TRUE
        ELSE IF saved.password /= new_password THEN TRUE
        ELSE FALSE

\* halow_save_network_config(ssid, password): [store, err, writes, commits].
\* A key set before the failing step stays set.
halow_save_network_config(store, ssid, password, fault) ==
    LET password_to_save == IF password = NullStr THEN EmptyStr ELSE password
        s1 == [store EXCEPT !.ssid = ssid]
        s2 == [s1 EXCEPT !.password = password_to_save]
        s3 == [s2 EXCEPT !.valid = 1]
    IN  IF ssid = NullStr \/ StrLen(ssid) = 0
          THEN [store |-> store, err |-> TRUE, writes |-> 0, commits |-> 0]
        ELSE IF fault = "open_rw"
          THEN [store |-> store, err |-> TRUE, writes |-> 0, commits |-> 0]
        ELSE IF fault = "set_ssid"
          THEN [store |-> store, err |-> TRUE, writes |-> 0, commits |-> 0]
        ELSE IF fault = "set_password"
          THEN [store |-> s1, err |-> TRUE, writes |-> 1, commits |-> 0]
        ELSE IF fault = "set_valid"
          THEN [store |-> s2, err |-> TRUE, writes |-> 2, commits |-> 0]
        ELSE IF fault = "commit"
          THEN [store |-> s3, err |-> TRUE, writes |-> 3, commits |-> 0]
        ELSE [store |-> s3, err |-> FALSE, writes |-> 3, commits |-> 1]

\* The save step of the status handler (task_halow.c:145-159): compare with the
\* stored pair, write only if halow_should_save_network_config says so.
SaveIfDifferent(store, ssid, password, fault) ==
    IF halow_should_save_network_config(store, ssid, password, fault)
      THEN halow_save_network_config(store, ssid, password, fault)
      ELSE [store |-> store, err |-> FALSE, writes |-> 0, commits |-> 0]

\* The persisted credential is exactly (ssid, password, valid = true); an absent
\* password is persisted as the empty string.
Persisted(store, ssid, password) ==
    store = [ssid |-> ssid,
             password |-> IF password = NullStr THEN EmptyStr ELSE password,
             valid |-> 1]


\* The points at which halow_clear_network_config may fail.
ClearFaults == {"none", "open_rw", "erase_all", "commit"}

\* Faulty variant: a clear that reports success and erases nothing.
ClearErasingNothing(store, fault) ==
    [store |-> store, err |-> fault /= "none"]

\* halow_clear_network_config(), task_halow.c:640-671: nvs_erase_all removes
\* every key of the namespace; a failed commit comes after the erase.
halow_clear_network_config(store, fault) ==
    IF fault = "open_rw" THEN [store |-> store, err |-> TRUE]
    ELSE IF fault = "erase_all" THEN [store |-> store, err |-> TRUE]
    ELSE IF fault = "commit" THEN [store |-> EmptyNvs, err |-> TRUE]
    ELSE [store |-> EmptyNvs, err |-> FALSE]

\* ------------------------------------------------------------ regulatory db

\* the country codes of regulatory_db_domains (mm_app_regdb.c)
RegDb == {"AU", "CA", "EU", "GB", "IN", "JP", "KR", "NZ", "US"}

\* mmwlan_lookup_regulatory_domain(get_regulatory_db(), code) /= NULL
LookupRegulatoryDomain(code) == code \in RegDb

\* ------------------------------------------------------------ login (task_login.c)

\* login_state_t, task_login.h:39-44
LOGIN_STATE_USERNAME == "USERNAME"
LOGIN_STATE_PASSWORD == "PASSWORD"
LOGIN_STATE_LOGGED_IN == "LOGGED_IN"
LOGIN_STATE_FAILED == "FAILED"

\* task_login.h:19-22.  MAX_PASSWORD_LEN of task_login.h is 16; it carries the
\* prefix here because task_halow.c has a constant of the same name.
MAX_USERNAME_LEN == 16
LOGIN_MAX_PASSWORD_LEN == 16
ADMIN_USERNAME == Str("admin", 5)
ADMIN_PASSWORD == Str("12345678", 8)

\* an input with a character that is not printable or is a space
SpacedInput == Str("a b", 3)

\* The strings handed to handle_login_input: the admin name and password, a
\* user name and a password, an empty string, one of 17 bytes, one with a
\* space, and NULL.
LoginInputs == {ADMIN_USERNAME, ADMIN_PASSWORD, Str("bob", 3), Str("pw", 2),
                EmptyStr, Str("x", MAX_USERNAME_LEN + 1), SpacedInput, NullStr}

\* The namespace "login_creds": keys username and password.
EmptyCreds == [username |-> NoKey, password |-> NoKey]

\* The points at which a read of the credentials may fail: both opens
\* (task_login.c:60-72, 169-176) or a get (task_login.c:79, 180, 188).
ReadFaults == {"none", "open", "get_username", "get_password"}

\* The points at which store_credentials may fail.
StoreFaults == {"none", "open_rw", "set_username", "set_password", "commit"}

\* is_first_time_login(), task_login.c:52-95: false only if the read of the
\* username key succeeds; every failure counts as a first login.
is_first_time_login(store, fault) ==
    IF fault = "open" THEN TRUE
    ELSE IF fault = "get_username" THEN TRUE
    ELSE store.username = NoKey

\* store_credentials(username, password), task_login.c:97-149
store_credentials(store, username, password, fault) ==
    LET s1 == [store EXCEPT !.username = username]
        s2 == [s1 EXCEPT !.password = password]
    IN  IF username = NullStr \/ password = NullStr
          THEN [store |-> store, err |-> TRUE, called |-> TRUE]
        ELSE IF fault = "open_rw" THEN [store |-> store, err |-> TRUE, called |-> TRUE]
        ELSE IF fault = "set_username"
          THEN [store |-> store, err |-> TRUE, called |-> TRUE]
        ELSE IF fault = "set_password" THEN [store |-> s1, err |-> TRUE, called |-> TRUE]
        ELSE IF fault = "commit" THEN [store |-> s2, err |-> TRUE, called |-> TRUE]
        ELSE [store |-> s2, err |-> FALSE, called |-> TRUE]

\* verify_credentials(username, password), task_login.c:151-197
verify_credentials(store, username, password, fault) ==
    IF username = NullStr \/ password = NullStr THEN FALSE
    ELSE IF username = ADMIN_USERNAME THEN password = ADMIN_PASSWORD
    ELSE IF fault = "open" THEN FALSE
    ELSE IF fault = "get_username"
            \/ ~NvsGetStrOk(store.username, MAX_USERNAME_LEN + 1) THEN FALSE
    ELSE IF fault = "get_password"
            \/ ~NvsGetStrOk(store.password, LOGIN_MAX_PASSWORD_LEN + 1) THEN FALSE
    ELSE username = store.username /\ password = store.password

\* is_valid_input(input, max_len), task_login.c:199-213
is_valid_input(input, max_len) ==
    /\ input /= NullStr
    /\ StrLen(input) > 0
    /\ StrLen(input) <= max_len
    /\ input /= SpacedInput

\* A step's record in the login: the state before the call, the value
\* returned, what is_first_time_login answered, the arguments of the
\* store_credentials call if one was made, and the store before the call.
NoLev == [op |-> "none", stage |-> "none", ret |-> "none", input |-> EmptyStr,
          first_time |-> FALSE, store_called |-> FALSE,
          store_username |-> EmptyStr, store_password |-> EmptyStr,
          read_fault |-> "none", creds_before |-> EmptyCreds,
          username |-> EmptyStr]

\* ------------------------------------------------------------ state

VARIABLES
    halow_initialized,            \* task_halow.c:70
    halow_started,                \* task_halow.c:71
    halow_booted,                 \* task_halow.c:72
    bits,                         \* halow_event_group, the set of bits that are set
    scan_count,                   \* task_halow.c:75
    halow_connected_ssid,         \* task_halow.c:76
    halow_save_pending_ssid,      \* task_halow.c:77
    halow_save_pending_password,  \* task_halow.c:78
    nvs,                          \* the persisted record
    drv,                          \* the driver adapter, as far as the manager drives it
    pc,                           \* position of the command context
    attempt,                      \* loop variable of halow_auto_connect
    ac_cred,                      \* ssid[] and password[] of halow_auto_connect
    call,                         \* ssid and password of the halow_connect call
                                  \* that is between two of its statements
    ev,                           \* history: what the last step did
    att_open,                     \* history: the adapter accepted a connect with
                                  \* drv.args and has not yet reported Connected
    awaiting,                     \* history: the adapter accepted an enable call
                                  \* and no status callback has come since
    ac_log,                       \* history: connect calls and delays of this auto-connect run
    prev_save,                    \* history: the previous save step of the status handler
    rx_since_scan,                \* history: result callbacks since the last scan()
    rx_reg,                       \* the scan_count a running result callback has
                                  \* read and not yet written back (-1: none)
    wait_fail_seen,               \* history: a failure callback arrived during this wait
    current_state,                \* task_login.c:26
    temp_username,                \* task_login.c:27
    temp_password,                \* task_login.c:28
    creds,                        \* the namespace "login_creds": username, password
    lev                           \* history: what the last step of the login did

\* the statics of task_halow.c with the adapter and the store it uses
halowVars == <<halow_initialized, halow_started, halow_booted, bits, scan_count,
               halow_connected_ssid, halow_save_pending_ssid,
               halow_save_pending_password, nvs, drv, pc, attempt, ac_cred,
               call, ev, att_open, awaiting, ac_log, prev_save, rx_since_scan,
               rx_reg, wait_fail_seen>>

\* the statics of task_login.c with the store it uses
loginVars == <<current_state, temp_username, temp_password, creds, lev>>

vars == <<halowVars, loginVars>>

NoCall == [ssid |-> EmptyStr, password |-> EmptyStr]

NoArgs == [ssid |-> EmptyStr, passphrase |-> EmptyStr, security |-> "NONE"]

\* A step's record.  ret is the value returned by the call made in this step
\* (1: none returned); ac_ret and start_ret are the values halow_auto_connect
\* and halow_start returned in this step (1: they did not return).
NoEv == [op |-> "none", ret |-> 1, ac_ret |-> 1, start_ret |-> 1,
         ssid |-> EmptyStr, pw |-> EmptyStr, st |-> -1,
         enable |-> FALSE, scanreq |-> FALSE, fail |-> "none",
         writes |-> 0, commits |-> 0, fault |-> "none",
         att_open |-> FALSE, stored_before |-> FALSE, pending_same |-> TRUE,
         busy |-> FALSE, count_before |-> 0, log |-> <<>>, fail_seen |-> FALSE,
         same_as_prev |-> FALSE, prev_commits |-> 0, prev_differed |-> FALSE,
         prev_clean |-> FALSE, desc_oob |-> FALSE, panic |-> FALSE]

NoSave == [valid |-> FALSE, ssid |-> EmptyStr, pw |-> EmptyStr, commits |-> 0,
           differed |-> FALSE, clean |-> FALSE]

Init ==
    /\ halow_initialized = FALSE
    /\ halow_started = FALSE
    /\ halow_booted = FALSE
    /\ bits = {}
    /\ scan_count = 0
    /\ halow_connected_ssid = EmptyStr
    /\ halow_save_pending_ssid = EmptyStr
    /\ halow_save_pending_password = EmptyStr
    /\ nvs = EmptyNvs
    /\ drv = [link_cb |-> FALSE, sta_cb |-> FALSE, booted |-> FALSE,
              args |-> NoArgs, scans |-> 0]
    /\ pc = "idle"
    /\ attempt = 0
    /\ ac_cred = LoadFail
    /\ call = NoCall
    /\ ev = NoEv
    /\ att_open = FALSE
    /\ awaiting = FALSE
    /\ ac_log = <<>>
    /\ prev_save = NoSave
    /\ rx_since_scan = 0
    /\ rx_reg = -1
    /\ wait_fail_seen = FALSE
    /\ current_state = LOGIN_STATE_USERNAME
    /\ temp_username = EmptyStr
    /\ temp_password = EmptyStr
    /\ creds = EmptyCreds
    /\ lev = NoLev

\* ------------------------------------------------------------ task_halow_init

\* task_halow_init(): ok is whether the pin check, nvs_flash_init and the
\* creation of the event group and semaphores all succeed.
TaskHalowInit(ok) ==
    /\ pc = "idle"
    /\ halow_initialized' = (halow_initialized \/ ok)
    /\ ev' = [NoEv EXCEPT !.op = "init", !.ret = IF halow_initialized \/ ok THEN 0 ELSE -1]
    /\ UNCHANGED <<halow_started, halow_booted, bits, scan_count,
                   halow_connected_ssid, halow_save_pending_ssid,
                   halow_save_pending_password, nvs, drv, pc, attempt,
                   ac_cred, att_open, ac_log, prev_save, rx_since_scan,
                   wait_fail_seen, rx_reg, call, awaiting>>
    /\ UNCHANGED loginVars

\* ------------------------------------------------------------ halow_connect

\* Faulty variant: the secured mode whatever was supplied.
SecurityAlwaysSae(has_pw) == "SAE"

\* task_halow.c:764-774: sta_args.security_type, MMWLAN_SAE with a password
\* and MMWLAN_OWE without
SecurityType(has_pw) == IF has_pw THEN "SAE" ELSE "OWE"

\* Faulty variant: a rejected enable call that leaves the pending ssid behind.
ConnectKeepingPending(ssid, password, accept) ==
    LET has_pw == password /= NullStr /\ StrLen(password) > 0
        same == [ret |-> -1, enable |-> FALSE,
                 connected_ssid |-> halow_connected_ssid,
                 pending_ssid |-> halow_save_pending_ssid,
                 pending_password |-> halow_save_pending_password,
                 args |-> drv.args, accepted |-> FALSE]
    IN  IF ~halow_started THEN same
        ELSE IF ssid = NullStr \/ StrLen(ssid) = 0 THEN same
        ELSE IF StrLen(ssid) > MMWLAN_SSID_MAXLEN
          THEN same
        ELSE IF has_pw /\ StrLen(password) > MMWLAN_PASSPHRASE_MAXLEN
          THEN same
        ELSE IF ~accept
          THEN [same EXCEPT !.enable = TRUE,
                            !.connected_ssid = EmptyStr,
                            !.pending_ssid = Truncate(ssid, MMWLAN_SSID_MAXLEN)]
        ELSE [ret |-> 0, enable |-> TRUE,
              connected_ssid |-> Truncate(ssid, MMWLAN_SSID_MAXLEN),
              pending_ssid |-> Truncate(ssid, MMWLAN_SSID_MAXLEN),
              pending_password |-> IF has_pw
                                     THEN Truncate(password, MAX_PASSWORD_LEN - 1)
                                     ELSE EmptyStr,
              args |-> [ssid |-> ssid,
                        passphrase |-> IF has_pw THEN password ELSE EmptyStr,
                        security |-> IF has_pw THEN "SAE" ELSE "OWE"],
              accepted |-> TRUE]

\* halow_connect(ssid, password), task_halow.c:733-811.  accept is the answer of
\* mmwlan_sta_enable.  The result holds the return value, whether the enable
\* call was issued, and the values of the globals and of the adapter's
\* arguments after the call.
halow_connect(ssid, password, accept) ==
    LET has_pw == password /= NullStr /\ StrLen(password) > 0
        same == [ret |-> -1, enable |-> FALSE,
                 connected_ssid |-> halow_connected_ssid,
                 pending_ssid |-> halow_save_pending_ssid,
                 pending_password |-> halow_save_pending_password,
                 args |-> drv.args, accepted |-> FALSE]
    IN  IF ~halow_started THEN same
        ELSE IF ssid = NullStr \/ StrLen(ssid) = 0 THEN same
        ELSE IF StrLen(ssid) > MMWLAN_SSID_MAXLEN
          THEN same
        ELSE IF has_pw /\ StrLen(password) > MMWLAN_PASSPHRASE_MAXLEN
          THEN same
        ELSE IF ~accept
          THEN [same EXCEPT !.enable = TRUE,
                            !.connected_ssid = EmptyStr,
                            !.pending_ssid = EmptyStr,
                            !.pending_password = EmptyStr]
        ELSE [ret |-> 0, enable |-> TRUE,
              connected_ssid |-> Truncate(ssid, MMWLAN_SSID_MAXLEN),
              pending_ssid |-> Truncate(ssid, MMWLAN_SSID_MAXLEN),
              pending_password |-> IF has_pw
                                     THEN Truncate(password, MAX_PASSWORD_LEN - 1)
                                     ELSE EmptyStr,
              args |-> [ssid |-> ssid,
                        passphrase |-> IF has_pw THEN password ELSE EmptyStr,
                        security |-> SecurityType(has_pw)],
              accepted |-> TRUE]

\* The assignments of one halow_connect call, shared by the command and by the
\* auto-connect loop; r is the result of halow_connect.
ApplyConnect(r) ==
    /\ halow_connected_ssid' = r.connected_ssid
    /\ halow_save_pending_ssid' = r.pending_ssid
    /\ halow_save_pending_password' = r.pending_password
    /\ drv' = [drv EXCEPT !.args = r.args, !.sta_cb = drv.sta_cb \/ r.accepted]
    /\ att_open' = IF r.enable THEN r.accepted ELSE att_open
    /\ awaiting' = IF r.enable THEN r.accepted ELSE awaiting

ConnectEv(op, r, ssid, password) ==
    [NoEv EXCEPT !.op = op, !.ret = r.ret, !.ssid = ssid, !.pw = password,
                 !.enable = r.enable,
                 !.pending_same = (r.pending_ssid = halow_save_pending_ssid
                                   /\ r.pending_password = halow_save_pending_password)]

\* "halow connect <ssid> [password]" from the console
Connect(ssid, password, accept) ==
    /\ pc = "idle"
    /\ LET r == halow_connect(ssid, password, accept)
       IN  /\ ApplyConnect(r)
           /\ ev' = ConnectEv("connect", r, ssid, password)
    /\ UNCHANGED <<halow_initialized, halow_started, halow_booted, bits,
                   scan_count, nvs, pc, attempt, ac_cred, ac_log, prev_save,
                   rx_since_scan, wait_fail_seen, rx_reg, call>>
    /\ UNCHANGED loginVars

\* ------------------------------------------------------------ halow_connect, statement by statement
\* halow_connect writes halow_connected_ssid, halow_save_pending_ssid and
\* halow_save_pending_password one after the other (task_halow.c:780-792) and
\* then calls mmwlan_sta_enable (task_halow.c:798), with no lock against the
\* status handler, which reads and clears the same buffers in the driver
\* context.  The four actions below are the same call with the points between
\* these statements visible.

\* The calls explored statement by statement: two networks, each with its own
\* password.
RaceCalls == {[ssid |-> Str("a", 5), password |-> Str("p", 5)],
              [ssid |-> Str("b", 5), password |-> Str("q", 5)]}

\* task_halow.c:733-781: the checks, and the write of halow_connected_ssid
ConnectBegin(ssid, password) ==
    /\ pc = "idle"
    /\ LET r == halow_connect(ssid, password, TRUE)
       IN  IF ~r.enable
             THEN /\ ev' = ConnectEv("connect", r, ssid, password)
                  /\ UNCHANGED <<halow_connected_ssid, pc, call>>
             ELSE /\ halow_connected_ssid' = r.connected_ssid
                  /\ call' = [ssid |-> ssid, password |-> password]
                  /\ pc' = "connect_pending_ssid"
                  /\ ev' = [NoEv EXCEPT !.op = "connect_begin"]
    /\ UNCHANGED <<halow_initialized, halow_started, halow_booted, bits,
                   scan_count, halow_save_pending_ssid,
                   halow_save_pending_password, nvs, drv, attempt, ac_cred,
                   att_open, ac_log, prev_save, rx_since_scan, rx_reg,
                   wait_fail_seen, awaiting>>
    /\ UNCHANGED loginVars

\* task_halow.c:784-785
ConnectPendingSsid ==
    /\ pc = "connect_pending_ssid"
    /\ halow_save_pending_ssid' = Truncate(call.ssid, MMWLAN_SSID_MAXLEN)
    /\ pc' = "connect_pending_password"
    /\ ev' = [NoEv EXCEPT !.op = "connect_pending_ssid"]
    /\ UNCHANGED <<halow_initialized, halow_started, halow_booted, bits,
                   scan_count, halow_connected_ssid,
                   halow_save_pending_password, nvs, drv, attempt, ac_cred,
                   call, att_open, ac_log, prev_save, rx_since_scan, rx_reg,
                   wait_fail_seen, awaiting>>
    /\ UNCHANGED loginVars

\* task_halow.c:787-792
ConnectPendingPassword ==
    /\ pc = "connect_pending_password"
    /\ halow_save_pending_password' =
         IF call.password /= NullStr /\ StrLen(call.password) > 0
           THEN Truncate(call.password, MAX_PASSWORD_LEN - 1)
           ELSE EmptyStr
    /\ pc' = "connect_enable"
    /\ ev' = [NoEv EXCEPT !.op = "connect_pending_password"]
    /\ UNCHANGED <<halow_initialized, halow_started, halow_booted, bits,
                   scan_count, halow_connected_ssid, halow_save_pending_ssid,
                   nvs, drv, attempt, ac_cred, call, att_open, ac_log,
                   prev_save, rx_since_scan, rx_reg, wait_fail_seen,
                   awaiting>>
    /\ UNCHANGED loginVars

\* task_halow.c:797-811: mmwlan_sta_enable and the return; only a rejected
\* call writes the buffers again.
ConnectEnable(accept) ==
    /\ pc = "connect_enable"
    /\ LET r == halow_connect(call.ssid, call.password, accept)
       IN  /\ drv' = [drv EXCEPT !.args = r.args,
                                 !.sta_cb = drv.sta_cb \/ r.accepted]
           /\ att_open' = r.accepted
           /\ awaiting' = r.accepted
           /\ IF accept
                THEN UNCHANGED <<halow_connected_ssid, halow_save_pending_ssid,
                                 halow_save_pending_password>>
                ELSE /\ halow_connected_ssid' = EmptyStr
                     /\ halow_save_pending_ssid' = EmptyStr
                     /\ halow_save_pending_password' = EmptyStr
           /\ ev' = [NoEv EXCEPT !.op = "connect", !.ret = r.ret,
                                 !.ssid = call.ssid, !.pw = call.password,
                                 !.enable = TRUE]
    /\ pc' = "idle"
    /\ call' = NoCall
    /\ UNCHANGED <<halow_initialized, halow_started, halow_booted, bits,
                   scan_count, nvs, attempt, ac_cred, ac_log, prev_save,
                   rx_since_scan, rx_reg, wait_fail_seen>>
    /\ UNCHANGED loginVars

\* ------------------------------------------------------------ driver callbacks

\* Faulty variant: a handler that gives up when the save fails.
StaStatusSaveFatal(sta_state, fault) ==
    /\ drv.sta_cb
    /\ sta_state \in StaStates
    /\ awaiting' = FALSE
    /\ IF sta_state = MMWLAN_STA_CONNECTED
         THEN /\ bits' = bits \cup {HALOW_CONNECTED_BIT}
              /\ IF halow_save_pending_ssid /= EmptyStr
                   THEN LET s == SaveIfDifferent(nvs, halow_save_pending_ssid,
                                                 halow_save_pending_password, fault)
                        IN  /\ nvs' = s.store
                            /\ halow_connected_ssid' =
                                 IF s.err THEN halow_connected_ssid
                                 ELSE Truncate(halow_save_pending_ssid,
                                               MMWLAN_SSID_MAXLEN)
                            /\ halow_save_pending_ssid' =
                                 IF s.err THEN halow_save_pending_ssid ELSE EmptyStr
                            /\ halow_save_pending_password' =
                                 IF s.err THEN halow_save_pending_password
                                 ELSE EmptyStr
                            /\ ev' = [NoEv EXCEPT
                                 !.op = "sta_status", !.st = sta_state,
                                 !.ssid = halow_save_pending_ssid,
                                 !.pw = halow_save_pending_password,
                                 !.fault = fault,
                                 !.writes = s.writes, !.commits = s.commits,
                                 !.att_open = att_open,
                                 !.stored_before =
                                     Persisted(nvs, drv.args.ssid, drv.args.passphrase)]
                   ELSE /\ fault = "none"
                        /\ ev' = [NoEv EXCEPT !.op = "sta_status", !.st = sta_state,
                                              !.att_open = att_open]
                        /\ UNCHANGED <<nvs, halow_connected_ssid,
                                       halow_save_pending_ssid,
                                       halow_save_pending_password>>
              /\ att_open' = FALSE
              /\ UNCHANGED wait_fail_seen
         ELSE /\ fault = "none"
              /\ bits' = bits \ {HALOW_CONNECTED_BIT}
              /\ halow_connected_ssid' = EmptyStr
              /\ wait_fail_seen' = (wait_fail_seen \/ pc = "ac_wait")
              /\ ev' = [NoEv EXCEPT !.op = "sta_status", !.st = sta_state,
                                    !.att_open = att_open]
              /\ UNCHANGED <<nvs, halow_save_pending_ssid,
                             halow_save_pending_password, att_open>>
    /\ UNCHANGED <<halow_initialized, halow_started, halow_booted, scan_count,
                   drv, pc, attempt, ac_cred, ac_log, prev_save,
                   rx_since_scan, rx_reg, call>>
    /\ UNCHANGED loginVars

\* task_halow.c:125-129: sta_state_desc has three entries
StaDescLen == 3

\* the index of sta_state_desc[sta_state] at task_halow.c:130 is inside the table
StaDescInBounds(sta_state) == sta_state \in 0..(StaDescLen - 1)

\* The handler for a value that is none of the three states: the read of
\* sta_state_desc[sta_state] at task_halow.c:130 is outside the table, and the
\* string it hands to printf is whatever lies there.  Either the read and the
\* print go through and the handler falls past both branches (task_halow.c:132
\* and 175), or the access faults and the firmware panics.
StaStatusOutOfTable(sta_state) ==
    /\ \E panic \in BOOLEAN :
          /\ pc' = IF panic THEN "panic" ELSE pc
          /\ ev' = [NoEv EXCEPT !.op = "sta_status", !.st = sta_state,
                                !.desc_oob = TRUE, !.panic = panic,
                                !.att_open = att_open]
    /\ UNCHANGED <<bits, nvs, halow_connected_ssid, halow_save_pending_ssid,
                   halow_save_pending_password, att_open, wait_fail_seen>>

\* halow_sta_status_handler(sta_state), task_halow.c:123-187.  fault is the
\* store failure met by the save step, if any.
StaStatus(sta_state, fault) ==
    /\ drv.sta_cb
    /\ pc /= "panic"
    /\ awaiting' = FALSE
    /\ IF ~StaDescInBounds(sta_state)
         THEN /\ fault = "none"
              /\ StaStatusOutOfTable(sta_state)
       ELSE IF sta_state = MMWLAN_STA_CONNECTED
         THEN /\ bits' = bits \cup {HALOW_CONNECTED_BIT}
              /\ IF halow_save_pending_ssid /= EmptyStr
                   THEN LET s == SaveIfDifferent(nvs, halow_save_pending_ssid,
                                                 halow_save_pending_password, fault)
                        IN  /\ nvs' = s.store
                            /\ halow_connected_ssid' =
                                 Truncate(halow_save_pending_ssid, MMWLAN_SSID_MAXLEN)
                            /\ halow_save_pending_ssid' = EmptyStr
                            /\ halow_save_pending_password' = EmptyStr
                            /\ ev' = [NoEv EXCEPT
                                 !.op = "sta_status", !.st = sta_state,
                                 !.ssid = halow_save_pending_ssid,
                                 !.pw = halow_save_pending_password,
                                 !.fault = fault,
                                 !.writes = s.writes, !.commits = s.commits,
                                 !.att_open = att_open,
                                 !.stored_before =
                                     Persisted(nvs, drv.args.ssid, drv.args.passphrase)]
                   ELSE /\ fault = "none"
                        /\ ev' = [NoEv EXCEPT !.op = "sta_status", !.st = sta_state,
                                              !.att_open = att_open]
                        /\ UNCHANGED <<nvs, halow_connected_ssid,
                                       halow_save_pending_ssid,
                                       halow_save_pending_password>>
              /\ att_open' = FALSE
              /\ UNCHANGED <<wait_fail_seen, pc>>
         ELSE /\ fault = "none"
              /\ bits' = bits \ {HALOW_CONNECTED_BIT}
              /\ halow_connected_ssid' = EmptyStr
              /\ wait_fail_seen' = (wait_fail_seen \/ pc = "ac_wait")
              /\ ev' = [NoEv EXCEPT !.op = "sta_status", !.st = sta_state,
                                    !.att_open = att_open]
              /\ UNCHANGED <<nvs, halow_save_pending_ssid,
                             halow_save_pending_password, att_open>>
              /\ UNCHANGED pc
    /\ UNCHANGED <<halow_initialized, halow_started, halow_booted, scan_count,
                   drv, attempt, ac_cred, ac_log, prev_save,
                   rx_since_scan, rx_reg, call>>
    /\ UNCHANGED loginVars

\* halow_link_state_handler(link_state, arg), task_halow.c:87-107
LinkState(up) ==
    /\ drv.link_cb
    /\ IF up
         THEN bits' = bits \cup {HALOW_CONNECTED_BIT}
         ELSE bits' = bits \ {HALOW_CONNECTED_BIT}
    /\ ev' = [NoEv EXCEPT !.op = IF up THEN "link_up" ELSE "link_down"]
    /\ UNCHANGED <<halow_initialized, halow_started, halow_booted, scan_count,
                   halow_connected_ssid, halow_save_pending_ssid,
                   halow_save_pending_password, nvs, drv, pc, attempt,
                   ac_cred, att_open, ac_log, prev_save, rx_since_scan,
                   wait_fail_seen, rx_reg, call, awaiting>>
    /\ UNCHANGED loginVars

\* ------------------------------------------------------------ halow_start

\* The answers of the adapter during halow_start: which call fails, if any.
StartFails == {"none", "chlist", "reg_link", "reg_rx", "boot", "mmipal"}
LoadFaults == {"none", "open_ro", "get_valid", "get_ssid", "get_password"}

\* The setup part of halow_start, task_halow.c:370-439: [ok, booted, drv].
StartSetup(fail) ==
    IF ~halow_booted
      THEN IF ~LookupRegulatoryDomain(HALOW_COUNTRY_CODE)
             THEN [ok |-> FALSE, booted |-> FALSE, drv |-> drv]
           ELSE IF fail = "chlist"
             THEN [ok |-> FALSE, booted |-> FALSE, drv |-> drv]
           ELSE IF fail = "reg_link"
             THEN [ok |-> FALSE, booted |-> FALSE, drv |-> drv]
           ELSE IF fail = "reg_rx"
             THEN [ok |-> FALSE, booted |-> FALSE,
                   drv |-> [drv EXCEPT !.link_cb = TRUE]]
           ELSE IF fail = "boot"
             THEN [ok |-> FALSE, booted |-> FALSE,
                   drv |-> [drv EXCEPT !.link_cb = TRUE]]
           ELSE IF fail = "mmipal"
             THEN [ok |-> FALSE, booted |-> FALSE,
                   drv |-> [drv EXCEPT !.link_cb = TRUE, !.booted = TRUE]]
           ELSE [ok |-> TRUE, booted |-> TRUE,
                 drv |-> [drv EXCEPT !.link_cb = TRUE, !.booted = TRUE]]
      ELSE \* re-register the callbacks; failures are logged and ignored
           [ok |-> TRUE, booted |-> TRUE,
            drv |-> [drv EXCEPT !.link_cb = (fail /= "reg_link")]]

\* halow_start(), task_halow.c:357-451, up to the first blocking call of
\* halow_auto_connect (task_halow.c:677-689): the credential is loaded into
\* ssid[MAX_SSID_LEN] and password[MAX_PASSWORD_LEN].
Start(fail, fault) ==
    /\ pc = "idle"
    /\ IF ~halow_initialized
         THEN /\ fail = "none" /\ fault = "none"
              /\ ev' = [NoEv EXCEPT !.op = "start", !.ret = -1, !.start_ret = -1]
              /\ UNCHANGED <<halow_started, halow_booted, drv, pc, attempt, ac_cred>>
       ELSE IF halow_started
         THEN /\ fail = "none" /\ fault = "none"
              /\ ev' = [NoEv EXCEPT !.op = "start", !.ret = 0, !.start_ret = 0]
              /\ UNCHANGED <<halow_started, halow_booted, drv, pc, attempt, ac_cred>>
       ELSE LET s == StartSetup(fail)
                cred == halow_load_network_config(nvs, MAX_SSID_LEN,
                                                  MAX_PASSWORD_LEN, fault)
            IN  /\ halow_booted => fail \in {"none", "reg_link", "reg_rx"}
                /\ drv' = s.drv
                /\ halow_booted' = s.booted
                /\ IF ~s.ok
                     THEN /\ fault = "none"
                          /\ ev' = [NoEv EXCEPT !.op = "start", !.ret = -1,
                                                !.start_ret = -1,
                                                !.fail = fail]
                          /\ UNCHANGED <<halow_started, pc, attempt, ac_cred>>
                     ELSE /\ halow_started' = TRUE
                          /\ IF ~cred.ok
                               THEN /\ ev' = [NoEv EXCEPT !.op = "start", !.ret = 0,
                                                          !.start_ret = 0,
                                                          !.ac_ret = -1,
                                                          !.fault = fault,
                                                          !.fail = fail]
                                    /\ UNCHANGED <<pc, attempt, ac_cred>>
                               ELSE /\ ev' = [NoEv EXCEPT !.op = "start",
                                                          !.fault = fault,
                                                          !.fail = fail]
                                    /\ ac_cred' = cred
                                    /\ pc' = "ac_connect"
                                    /\ attempt' = 1
    /\ UNCHANGED <<halow_initialized, bits, scan_count, halow_connected_ssid,
                   halow_save_pending_ssid, halow_save_pending_password, nvs,
                   att_open, ac_log, prev_save, rx_since_scan, wait_fail_seen,
                   rx_reg, call, awaiting>>
    /\ UNCHANGED loginVars

\* ------------------------------------------------------------ halow_auto_connect

\* Faulty variant: a delay after every attempt, the last included.
DelayAfterEvery(k) == k <= AUTO_CONNECT_MAX_ATTEMPTS

\* task_halow.c:717-720: the delay follows every attempt but the last
DelayAfter(k) == k < AUTO_CONNECT_MAX_ATTEMPTS

\* task_halow.c:691: attempt++ and the test attempt <= AUTO_CONNECT_MAX_ATTEMPTS
LoopContinues(k) == k + 1 <= AUTO_CONNECT_MAX_ATTEMPTS

\* Faulty variant: a wait that looks at the wrong bit.
WaitSawFailBit(b) == HALOW_FAIL_BIT \in b

\* task_halow.c:707: the wait succeeded iff the returned bits hold the
\* Connected bit
WaitSucceeded(b) == HALOW_CONNECTED_BIT \in b

\* halow_auto_connect returns r and halow_start returns 0 (task_halow.c:448-450);
\* the locals die, the log of the run goes into the step's record.
AcReturn(e, log, r) ==
    /\ pc' = "idle"
    /\ attempt' = 0
    /\ ac_cred' = LoadFail
    /\ ac_log' = <<>>
    /\ ev' = [e EXCEPT !.start_ret = 0, !.ac_ret = r, !.log = log]

\* The end of one pass of the loop body, task_halow.c:691 and 723-724: the
\* next attempt, or the return of -1 after the last.
NextAttempt(e, log) ==
    IF LoopContinues(attempt)
      THEN /\ pc' = "ac_connect"
           /\ attempt' = attempt + 1
           /\ ac_log' = log
           /\ ev' = e
           /\ UNCHANGED ac_cred
      ELSE AcReturn(e, log, -1)

\* The end of one failed attempt, task_halow.c:717-720: the delay, if any.
AttemptFailed(e, log) ==
    IF DelayAfter(attempt)
      THEN /\ pc' = "ac_delay"
           /\ ac_log' = Append(log, "delay")
           /\ ev' = e
           /\ UNCHANGED <<attempt, ac_cred>>
      ELSE NextAttempt(e, log)

\* Faulty variant: the stored password is handed on as it is, an empty one
\* as the empty string.
ConnectPasswordAsStored(password) == password

\* task_halow.c:695: connect_password, absent when the stored one is empty
ConnectPassword(password) ==
    IF StrLen(password) > 0 THEN password ELSE NullStr

\* task_halow.c:695-699 and 713-715: one halow_connect call of the loop
AcConnect(accept) ==
    /\ pc = "ac_connect"
    /\ LET connect_password == ConnectPassword(ac_cred.password)
           r == halow_connect(ac_cred.ssid, connect_password, accept)
           e == ConnectEv("ac_connect", r, ac_cred.ssid, connect_password)
       IN  /\ ApplyConnect(r)
           /\ IF r.ret = 0
                THEN /\ pc' = "ac_wait"
                     /\ ac_log' = Append(ac_log, "connect")
                     /\ ev' = e
                     /\ UNCHANGED <<attempt, ac_cred>>
                ELSE AttemptFailed(e, Append(ac_log, "connect"))
    /\ wait_fail_seen' = FALSE
    /\ UNCHANGED <<halow_initialized, halow_started, halow_booted, bits,
                   scan_count, nvs, prev_save, rx_since_scan, rx_reg, call>>
    /\ UNCHANGED loginVars

\* task_halow.c:701-712: xEventGroupWaitBits returns, with the Connected bit
\* or after 5000 ms without it
AcWaitReturn ==
    /\ pc = "ac_wait"
    /\ LET e == [NoEv EXCEPT !.op = "ac_wait", !.fail_seen = wait_fail_seen]
       IN  IF WaitSucceeded(bits)
             THEN AcReturn(e, ac_log, 0)
             ELSE AttemptFailed(e, ac_log)
    /\ wait_fail_seen' = FALSE
    /\ UNCHANGED <<halow_initialized, halow_started, halow_booted, bits,
                   scan_count, halow_connected_ssid, halow_save_pending_ssid,
                   halow_save_pending_password, nvs, drv, att_open, prev_save,
                   rx_since_scan, rx_reg, call, awaiting>>
    /\ UNCHANGED loginVars

\* task_halow.c:719 and 691: vTaskDelay returns, the loop goes on
AcDelayReturn ==
    /\ pc = "ac_delay"
    /\ NextAttempt([NoEv EXCEPT !.op = "ac_delay"], ac_log)
    /\ UNCHANGED <<halow_initialized, halow_started, halow_booted, bits,
                   scan_count, halow_connected_ssid, halow_save_pending_ssid,
                   halow_save_pending_password, nvs, drv, att_open, prev_save,
                   rx_since_scan, wait_fail_seen, rx_reg, call, awaiting>>
    /\ UNCHANGED loginVars

\* ------------------------------------------------------------ halow_stop

\* Faulty variant: a stop that also erases the stored credential.
StopClearingStore ==
    /\ pc = "idle"
    /\ IF ~halow_started
         THEN /\ ev' = [NoEv EXCEPT !.op = "stop", !.ret = 0]
              /\ UNCHANGED <<halow_started, bits, drv, nvs>>
         ELSE /\ drv' = [drv EXCEPT !.link_cb = FALSE]
              /\ bits' = bits \ {HALOW_CONNECTED_BIT}
              /\ halow_started' = FALSE
              /\ nvs' = EmptyNvs
              /\ ev' = [NoEv EXCEPT !.op = "stop", !.ret = 0]
    /\ UNCHANGED <<halow_initialized, halow_booted, scan_count,
                   halow_connected_ssid, halow_save_pending_ssid,
                   halow_save_pending_password, pc, attempt, ac_cred,
                   att_open, ac_log, prev_save, rx_since_scan, wait_fail_seen,
                   rx_reg, call, awaiting>>
    /\ UNCHANGED loginVars

\* Faulty variant: a stop that does not look at halow_started.
StopUnguarded ==
    /\ pc = "idle"
    /\ drv' = [drv EXCEPT !.link_cb = FALSE]
    /\ bits' = bits \ {HALOW_CONNECTED_BIT}
    /\ halow_started' = FALSE
    /\ ev' = [NoEv EXCEPT !.op = "stop", !.ret = 0]
    /\ UNCHANGED <<halow_initialized, halow_booted, scan_count,
                   halow_connected_ssid, halow_save_pending_ssid,
                   halow_save_pending_password, nvs, pc, attempt, ac_cred,
                   att_open, ac_log, prev_save, rx_since_scan, wait_fail_seen,
                   rx_reg, call, awaiting>>
    /\ UNCHANGED loginVars

\* halow_stop(), task_halow.c:457-482
Stop ==
    /\ pc = "idle"
    /\ IF ~halow_started
         THEN /\ ev' = [NoEv EXCEPT !.op = "stop", !.ret = 0]
              /\ UNCHANGED <<halow_started, bits, drv>>
         ELSE /\ drv' = [drv EXCEPT !.link_cb = FALSE]
              /\ bits' = bits \ {HALOW_CONNECTED_BIT}
              /\ halow_started' = FALSE
              /\ ev' = [NoEv EXCEPT !.op = "stop", !.ret = 0]
    /\ UNCHANGED <<halow_initialized, halow_booted, scan_count,
                   halow_connected_ssid, halow_save_pending_ssid,
                   halow_save_pending_password, nvs, pc, attempt, ac_cred,
                   att_open, ac_log, prev_save, rx_since_scan, wait_fail_seen,
                   rx_reg, call, awaiting>>
    /\ UNCHANGED loginVars

\* ------------------------------------------------------------ scan

\* A scan is in progress from an accepted mmwlan_scan_request to its
\* completion callback.
ScanInProgress == drv.scans > 0

\* scan_count++ on a uint16_t, task_halow.c:197
NextScanCount(c) == (c + 1) % UINT16_MOD

\* Faulty variant: a scan that does not look at halow_started.
ScanUnguarded(accept) ==
    /\ pc = "idle"
    /\ accept => drv.scans < MaxOutstandingScans
    /\ scan_count' = 0
    /\ rx_since_scan' = 0
    /\ drv' = IF accept THEN [drv EXCEPT !.scans = drv.scans + 1] ELSE drv
    /\ ev' = [NoEv EXCEPT !.op = "scan",
                          !.ret = IF accept THEN 0 ELSE -1,
                          !.scanreq = TRUE,
                          !.busy = ScanInProgress,
                          !.count_before = scan_count]
    /\ UNCHANGED <<halow_initialized, halow_started, halow_booted, bits,
                   halow_connected_ssid, halow_save_pending_ssid,
                   halow_save_pending_password, nvs, pc, attempt, ac_cred,
                   att_open, ac_log, prev_save, wait_fail_seen, rx_reg, call,
                   awaiting>>
    /\ UNCHANGED loginVars

\* halow_scan(), task_halow.c:817-845.  accept is the answer of
\* mmwlan_scan_request.
Scan(accept) ==
    /\ pc = "idle"
    /\ IF ~halow_started
         THEN /\ accept = FALSE
              /\ ev' = [NoEv EXCEPT !.op = "scan", !.ret = -1,
                                    !.busy = ScanInProgress,
                                    !.count_before = scan_count]
              /\ UNCHANGED <<scan_count, rx_since_scan, drv>>
         ELSE /\ accept => drv.scans < MaxOutstandingScans
              /\ scan_count' = 0
              /\ rx_since_scan' = 0
              /\ drv' = IF accept THEN [drv EXCEPT !.scans = drv.scans + 1] ELSE drv
              /\ ev' = [NoEv EXCEPT !.op = "scan",
                                    !.ret = IF accept THEN 0 ELSE -1,
                                    !.scanreq = TRUE,
                                    !.busy = ScanInProgress,
                                    !.count_before = scan_count]
    /\ UNCHANGED <<halow_initialized, halow_started, halow_booted, bits,
                   halow_connected_ssid, halow_save_pending_ssid,
                   halow_save_pending_password, nvs, pc, attempt, ac_cred,
                   att_open, ac_log, prev_save, wait_fail_seen, rx_reg, call,
                   awaiting>>
    /\ UNCHANGED loginVars

\* halow_scan_rx_callback(result, arg), task_halow.c:192-208.  scan_count++
\* (task_halow.c:197) is a read and a write of a plain uint16_t in the driver
\* context, while halow_scan writes the same variable from the command context
\* with no lock between them (task_halow.c:832), so the two steps are separate
\* actions: ScanRxLoad reads, ScanRxStore writes the incremented value back.
ScanRxLoad ==
    /\ ScanInProgress
    /\ rx_reg = -1
    /\ rx_since_scan < MaxScanResults
    /\ scan_count < MaxScanResults
    /\ rx_reg' = scan_count
    /\ ev' = [NoEv EXCEPT !.op = "scan_rx_load", !.count_before = scan_count]
    /\ UNCHANGED <<halow_initialized, halow_started, halow_booted, bits,
                   halow_connected_ssid, halow_save_pending_ssid,
                   halow_save_pending_password, nvs, drv, pc, attempt,
                   ac_cred, att_open, ac_log, prev_save, wait_fail_seen,
                   scan_count, rx_since_scan, call, awaiting>>
    /\ UNCHANGED loginVars

ScanRxStore ==
    /\ rx_reg /= -1
    /\ scan_count' = NextScanCount(rx_reg)
    /\ rx_since_scan' = rx_since_scan + 1
    /\ rx_reg' = -1
    /\ ev' = [NoEv EXCEPT !.op = "scan_rx", !.count_before = scan_count]
    /\ UNCHANGED <<halow_initialized, halow_started, halow_booted, bits,
                   halow_connected_ssid, halow_save_pending_ssid,
                   halow_save_pending_password, nvs, drv, pc, attempt,
                   ac_cred, att_open, ac_log, prev_save, wait_fail_seen, call,
                   awaiting>>
    /\ UNCHANGED loginVars

\* halow_scan_complete_callback(state, arg), task_halow.c:213-224
ScanComplete ==
    /\ ScanInProgress
    /\ drv' = [drv EXCEPT !.scans = drv.scans - 1]
    /\ bits' = bits \cup {HALOW_SCAN_DONE_BIT}
    /\ ev' = [NoEv EXCEPT !.op = "scan_complete", !.count_before = scan_count]
    /\ UNCHANGED <<halow_initialized, halow_started, halow_booted, scan_count,
                   halow_connected_ssid, halow_save_pending_ssid,
                   halow_save_pending_password, nvs, pc, attempt, ac_cred,
                   att_open, ac_log, prev_save, rx_since_scan, wait_fail_seen,
                   rx_reg, call, awaiting>>
    /\ UNCHANGED loginVars

\* ------------------------------------------------------------ the save step alone

\* The pairs the status handler can hand to the save step: the pending ssid is
\* 1..32 bytes, the pending password 0..63 bytes (task_halow.c:784-792).
SaveSsids == {Truncate(s, MMWLAN_SSID_MAXLEN) : s \in SsidArgs} \ {EmptyStr}
SavePws == {Truncate(p, MAX_PASSWORD_LEN - 1) : p \in PwArgs \ {NullStr}}

\* The save step of the status handler, task_halow.c:145-159, on its own
SaveStep(ssid, password, fault) ==
    /\ LET s == SaveIfDifferent(nvs, ssid, password, fault)
       IN  /\ nvs' = s.store
           /\ prev_save' = [valid |-> TRUE, ssid |-> ssid, pw |-> password,
                            commits |-> s.commits,
                            differed |-> ~Persisted(nvs, ssid, password),
                            clean |-> fault = "none"]
           /\ ev' = [NoEv EXCEPT !.op = "save", !.ssid = ssid, !.pw = password,
                                 !.fault = fault, !.writes = s.writes,
                                 !.commits = s.commits,
                                 !.same_as_prev = (prev_save.valid
                                                   /\ prev_save.ssid = ssid
                                                   /\ prev_save.pw = password),
                                 !.prev_commits = prev_save.commits,
                                 !.prev_differed = prev_save.differed,
                                 !.prev_clean = prev_save.clean]
    /\ UNCHANGED <<halow_initialized, halow_started, halow_booted, bits,
                   scan_count, halow_connected_ssid, halow_save_pending_ssid,
                   halow_save_pending_password, drv, pc, attempt, ac_cred,
                   att_open, ac_log, rx_since_scan, wait_fail_seen, rx_reg,
                   call, awaiting>>
    /\ UNCHANGED loginVars

\* halow_clear_network_config() called from the command context; the record
\* of the step notes whether load() found a credential before the call.
Clear(fault) ==
    /\ pc = "idle"
    /\ LET c == halow_clear_network_config(nvs, fault)
       IN  /\ nvs' = c.store
           /\ ev' = [NoEv EXCEPT !.op = "clear",
                                 !.ret = IF c.err THEN -1 ELSE 0,
                                 !.fault = fault,
                                 !.stored_before =
                                   halow_load_network_config(
                                     nvs, MAX_SSID_LEN, MAX_PASSWORD_LEN, "none").ok]
    /\ UNCHANGED <<halow_initialized, halow_started, halow_booted, bits,
                   scan_count, halow_connected_ssid, halow_save_pending_ssid,
                   halow_save_pending_password, drv, pc, attempt, ac_cred,
                   att_open, ac_log, prev_save, rx_since_scan, wait_fail_seen,
                   rx_reg, call, awaiting>>
    /\ UNCHANGED loginVars

\* ------------------------------------------------------------ login actions

\* app_main after a boot, task_main.c:547: login_init(), task_login.c:41-50
LoginInit ==
    /\ current_state' = LOGIN_STATE_USERNAME
    /\ temp_username' = EmptyStr
    /\ temp_password' = EmptyStr
    /\ lev' = [NoLev EXCEPT !.op = "login_init", !.stage = current_state,
                            !.creds_before = creds]
    /\ UNCHANGED creds
    /\ UNCHANGED halowVars

\* handle_login_input(input, result), task_login.c:215-301.  read_fault is
\* the failure met by is_first_time_login (the first call of the stage),
\* verify_fault the one met by verify_credentials, store_fault the one met by
\* store_credentials.
HandleLoginInput(input, read_fault, verify_fault, store_fault) ==
    LET e == [NoLev EXCEPT !.op = "login_input", !.stage = current_state,
                           !.input = input, !.read_fault = read_fault,
                           !.creds_before = creds,
                           !.username = temp_username]
        first == is_first_time_login(creds, read_fault)
    IN
    /\ IF input = NullStr
         THEN /\ read_fault = "none" /\ verify_fault = "none" /\ store_fault = "none"
              /\ lev' = [e EXCEPT !.ret = LOGIN_STATE_FAILED]
              /\ UNCHANGED <<current_state, temp_username, temp_password, creds>>
       ELSE IF current_state = LOGIN_STATE_USERNAME
         THEN /\ verify_fault = "none" /\ store_fault = "none"
              /\ IF ~is_valid_input(input, MAX_USERNAME_LEN)
                   THEN /\ read_fault = "none"
                        /\ lev' = [e EXCEPT !.ret = LOGIN_STATE_USERNAME]
                        /\ UNCHANGED <<current_state, temp_username>>
                 ELSE IF first /\ input = ADMIN_USERNAME
                   THEN /\ lev' = [e EXCEPT !.ret = LOGIN_STATE_USERNAME,
                                            !.first_time = first]
                        /\ UNCHANGED <<current_state, temp_username>>
                 ELSE /\ temp_username' = Truncate(input, MAX_USERNAME_LEN)
                      /\ current_state' = LOGIN_STATE_PASSWORD
                      /\ lev' = [e EXCEPT !.ret = LOGIN_STATE_PASSWORD,
                                          !.first_time = first]
              /\ UNCHANGED <<temp_password, creds>>
       ELSE IF current_state = LOGIN_STATE_PASSWORD
         THEN IF ~is_valid_input(input, LOGIN_MAX_PASSWORD_LEN)
                THEN /\ read_fault = "none" /\ verify_fault = "none"
                     /\ store_fault = "none"
                     /\ lev' = [e EXCEPT !.ret = LOGIN_STATE_PASSWORD]
                     /\ UNCHANGED <<current_state, temp_username, temp_password,
                                    creds>>
              ELSE LET pw == Truncate(input, LOGIN_MAX_PASSWORD_LEN)
                   IN  /\ temp_password' = pw
                       /\ UNCHANGED temp_username
                       /\ IF first
                            THEN LET s == store_credentials(creds, temp_username,
                                                            pw, store_fault)
                                 IN  /\ verify_fault = "none"
                                     /\ creds' = s.store
                                     /\ current_state' =
                                          IF s.err THEN LOGIN_STATE_USERNAME
                                          ELSE LOGIN_STATE_LOGGED_IN
                                     /\ lev' = [e EXCEPT
                                          !.ret = IF s.err THEN LOGIN_STATE_FAILED
                                                  ELSE LOGIN_STATE_LOGGED_IN,
                                          !.first_time = TRUE,
                                          !.store_called = s.called,
                                          !.store_username = temp_username,
                                          !.store_password = pw]
                            ELSE /\ store_fault = "none"
                                 /\ UNCHANGED creds
                                 /\ IF verify_credentials(creds, temp_username, pw,
                                                          verify_fault)
                                      THEN /\ current_state' = LOGIN_STATE_LOGGED_IN
                                           /\ lev' = [e EXCEPT
                                                !.ret = LOGIN_STATE_LOGGED_IN]
                                      ELSE /\ current_state' = LOGIN_STATE_USERNAME
                                           /\ lev' = [e EXCEPT
                                                !.ret = LOGIN_STATE_FAILED]
       ELSE /\ read_fault = "none" /\ verify_fault = "none" /\ store_fault = "none"
            /\ lev' = [e EXCEPT !.ret = LOGIN_STATE_FAILED]
            /\ UNCHANGED <<current_state, temp_username, temp_password, creds>>
    /\ UNCHANGED halowVars

\* ------------------------------------------------------------ specifications

\* The lifecycle, the connection state machine, the credential store and the
\* auto-connect loop.
Next ==
    \/ \E ok \in BOOLEAN : TaskHalowInit(ok)
    \/ \E fail \in StartFails, fault \in LoadFaults : Start(fail, fault)
    \/ \E accept \in BOOLEAN : AcConnect(accept)
    \/ AcWaitReturn
    \/ AcDelayReturn
    \/ Stop
    \/ \E ssid \in AssocSsids, password \in AssocPws, accept \in BOOLEAN :
          Connect(ssid, password, accept)
    \/ \E sta_state \in StaStates, fault \in NvsFaults : StaStatus(sta_state, fault)
    \/ \E up \in BOOLEAN : LinkState(up)

Spec == Init /\ [][Next]_vars

\* The lifecycle and the scan coordinator.  The scan operations and callbacks
\* read and write none of the connection state but halow_started, so they are
\* explored with the lifecycle and the link callback only.
NextScan ==
    \/ \E ok \in BOOLEAN : TaskHalowInit(ok)
    \/ \E fail \in StartFails : Start(fail, "none")
    \/ Stop
    \/ \E accept \in BOOLEAN : Scan(accept)
    \/ ScanRxLoad
    \/ ScanRxStore
    \/ ScanComplete
    \/ \E up \in BOOLEAN : LinkState(up)

SpecScan == Init /\ [][NextScan]_vars

\* The lifecycle and halow_connect over all argument lengths, valid and not.
NextConnect ==
    \/ \E ok \in BOOLEAN : TaskHalowInit(ok)
    \/ \E fail \in StartFails : Start(fail, "none")
    \/ Stop
    \/ \E ssid \in SsidArgs, password \in PwArgs, accept \in BOOLEAN :
          Connect(ssid, password, accept)

SpecConnect == Init /\ [][NextConnect]_vars

\* halow_connect statement by statement, against the status callback.
NextRace ==
    \/ \E ok \in BOOLEAN : TaskHalowInit(ok)
    \/ \E fail \in StartFails : Start(fail, "none")
    \/ \E c \in RaceCalls : ConnectBegin(c.ssid, c.password)
    \/ ConnectPendingSsid
    \/ ConnectPendingPassword
    \/ \E accept \in BOOLEAN : ConnectEnable(accept)
    \/ \E sta_state \in StaStates : StaStatus(sta_state, "none")

SpecRace == Init /\ [][NextRace]_vars

\* The credential store under the sequences of save steps the status handler
\* can make.
NextStore ==
    \E ssid \in SaveSsids, password \in SavePws, fault \in NvsFaults :
        SaveStep(ssid, password, fault)

SpecStore == Init /\ [][NextStore]_vars

\* ============================================================ claims

\* What halow_load_network_config returns to its callers for the store as it
\* stands, with no read failure.
Loaded == halow_load_network_config(nvs, MAX_SSID_LEN, MAX_PASSWORD_LEN, "none")

\* The step was a status callback reporting Connected for the connect that the
\* adapter accepted last (no Connected report and no other enable call since),
\* and the store did not fail.
ConnectedForAttempt ==
    /\ ev.op = "sta_status"
    /\ ev.st = MMWLAN_STA_CONNECTED
    /\ ev.att_open
    /\ ev.fault = "none"

\* C1: for every ssid of 1..32 bytes and password of 1..64 bytes, after the
\* adapter accepted connect(ssid, password) and then reports Connected, the
\* manager is connected, the shown SSID is ssid, the persisted credential is
\* exactly (ssid, password, valid) and load() returns that pair.
C1_ConnectedPersistsCredential ==
    (/\ ConnectedForAttempt
     /\ StrLen(drv.args.ssid) \in 1..32
     /\ StrLen(drv.args.passphrase) \in 1..64)
    => /\ HALOW_CONNECTED_BIT \in bits
       /\ halow_connected_ssid = drv.args.ssid
       /\ Persisted(nvs, drv.args.ssid, drv.args.passphrase)
       /\ Loaded = [ok |-> TRUE, ssid |-> drv.args.ssid,
                    password |-> drv.args.passphrase]

\* C2: connect() with an ssid longer than 32 bytes or a password longer than
\* 64 bytes returns an error, issues no enable call and records no
\* PendingAttempt (the pending pair is what it was).
C2_OverlongRejected ==
    (/\ ev.op = "connect"
     /\ (StrLen(ev.ssid) > 32 \/ StrLen(ev.pw) > 64))
    => /\ ev.ret = -1
       /\ ~ev.enable
       /\ ev.pending_same

\* The log of an auto-connect run that made k attempts and no delay after the
\* last of them.
AttemptLog(k) ==
    [i \in 1..(2 * k - 1) |-> IF i % 2 = 1 THEN "connect" ELSE "delay"]

\* C3: an auto-connect run with a saved credential in which every attempt
\* fails makes exactly 3 connect() calls, with a delay after the first and the
\* second and none after the third, then returns failure, and the loop is over:
\* the command context is idle and issues no connect() of its own.
C3_ThreeAttemptsThenFailure ==
    (ev.ac_ret = -1 /\ ev.op /= "start")
    => /\ ev.log = AttemptLog(3)
       /\ pc = "idle"
       /\ ac_log = <<>>

C3_Witness ==
    /\ ev.ac_ret = -1
    /\ ev.op = "ac_wait"
    /\ ev.log = <<"connect", "delay", "connect", "delay", "connect">>

\* C4: when there is no saved credential to load (the store cannot be opened
\* or read, the valid marker is not set, or a field is missing), a start() that
\* reaches auto-connect issues no connect() and no enable call, and returns
\* success.
C4_NoCredentialNoConnect ==
    (/\ ev.op = "start"
     /\ halow_started
     /\ \/ ev.fault \in {"open_ro", "get_valid", "get_ssid", "get_password"}
        \/ nvs.valid /= 1
        \/ nvs.ssid = NoKey
        \/ nvs.password = NoKey
        \/ StrLen(nvs.ssid) + 1 > MAX_SSID_LEN
        \/ StrLen(nvs.password) + 1 > MAX_PASSWORD_LEN)
    => /\ pc = "idle"
       /\ ev.start_ret = 0
       /\ ~ev.enable
       /\ ac_log = <<>>

C4_Witness ==
    /\ ev.op = "start"
    /\ ev.start_ret = 0
    /\ ev.ac_ret = -1
    /\ nvs.valid /= 1
    /\ nvs.ssid /= NoKey

\* C5: the attempt whose wait observes Connected is the last one: auto-connect
\* returns success in that step, after k connect() calls and k-1 delays, and
\* the loop is over.
C5_StopsAtFirstSuccess ==
    (ev.op = "ac_wait" /\ HALOW_CONNECTED_BIT \in bits)
    => /\ ev.ac_ret = 0
       /\ ev.start_ret = 0
       /\ pc = "idle"
       /\ ac_log = <<>>
       /\ \E k \in 1..AUTO_CONNECT_MAX_ATTEMPTS : ev.log = AttemptLog(k)

C5_Witness ==
    /\ ev.op = "ac_wait"
    /\ ev.ac_ret = 0
    /\ ev.log = <<"connect", "delay", "connect">>

\* C6: two save steps in a row with the same (ssid, password), the first of
\* them finding another credential stored, make exactly one commit in total,
\* and load() then returns that pair.
C6_SecondSaveWritesNothing ==
    (/\ ev.op = "save"
     /\ ev.same_as_prev
     /\ ev.prev_differed
     /\ ev.prev_clean
     /\ ev.fault = "none")
    => /\ ev.prev_commits + ev.commits = 1
       /\ ev.writes = 0
       /\ Loaded = [ok |-> TRUE, ssid |-> ev.ssid, password |-> ev.pw]

\* C7: if the persisted credential already is that of the attempt, handling
\* the Connected callback of the attempt writes and commits nothing.
C7_ReconnectWritesNothing ==
    (ConnectedForAttempt /\ ev.stored_before)
    => /\ ev.writes = 0
       /\ ev.commits = 0

\* C8: a wait during which the driver delivered a failure callback
\* (Connecting or Disabled) and which does not see Connected returns with the
\* Failed flag set, so that the waiter is told Failed and not only a timeout.
C8_FailureReportedToWaiter ==
    (/\ ev.op = "ac_wait"
     /\ ev.fail_seen
     /\ HALOW_CONNECTED_BIT \notin bits)
    => HALOW_FAIL_BIT \in bits

\* C9: a scan() made while the manager is started leaves result_count 0; from
\* then on result_count is the number of result callbacks delivered since that
\* call, each callback having raised it by exactly one.
C9_ResultCountFollowsCallbacks ==
    /\ (ev.op = "scan" /\ ev.scanreq) => scan_count = 0
    /\ ev.op = "scan_rx" => scan_count = ev.count_before + 1
    /\ rx_reg = -1 => scan_count = rx_since_scan

\* C10: a scan() made while an accepted scan has not completed fails, issues
\* no scan request and leaves result_count alone; at most one scan is in
\* progress.
C10_SecondScanBusy ==
    /\ (ev.op = "scan" /\ ev.busy)
         => /\ ev.ret = -1
            /\ ~ev.scanreq
            /\ scan_count = ev.count_before
    /\ drv.scans <= 1

\* C11: whatever the interleaving of a halow_connect call with the status
\* callback, the pair a Connected callback hands to the save step is the
\* (ssid, password) of one halow_connect call, never a mixture.
C11_SavedPairIsOneCall ==
    (/\ ev.op = "sta_status"
     /\ ev.st = MMWLAN_STA_CONNECTED
     /\ ev.ssid /= EmptyStr)
    => \E c \in RaceCalls : ev.ssid = c.ssid /\ ev.pw = c.password

\* C12: halow_connect, called by the user or by the auto-connect loop, issues
\* the enable call only when no PendingAttempt exists or the previous attempt
\* has had its terminal callback: never while a pending pair is recorded for
\* an accepted attempt that no status callback has answered.
C12_EnableOnlyWhenNonePending ==
    [][(ev'.op \in {"connect", "ac_connect"} /\ ev'.enable)
         => ~(awaiting /\ halow_save_pending_ssid /= EmptyStr)]_vars

\* C13: start() while started and stop() while not started return success,
\* make no adapter call, do not run auto-connect, and leave every piece of the
\* manager's state as it was.
C13_StartStopIdempotent ==
    [][((ev'.op = "start" /\ halow_started) \/ (ev'.op = "stop" /\ ~halow_started))
         => /\ ev'.ret = 0
            /\ ev'.op = "start" => (ev'.start_ret = 0 /\ ev'.ac_ret = 1)
            /\ ~ev'.enable
            /\ UNCHANGED <<halow_initialized, halow_started, halow_booted, bits,
                           scan_count, halow_connected_ssid,
                           halow_save_pending_ssid, halow_save_pending_password,
                           nvs, drv, pc, attempt, ac_cred, call>>]_vars

C13_Witness ==
    /\ ev.op = "start"
    /\ ev.start_ret = 0
    /\ ev.ac_ret = 1
    /\ halow_started
    /\ Loaded.ok
    /\ HALOW_CONNECTED_BIT \in bits

\* C14: a start() in which the regulatory lookup, the boot or a callback
\* registration fails, on the first boot or on a restart after stop(), returns
\* failure, leaves the manager not started and does not run auto-connect.
C14_StartFailureReported ==
    (ev.op = "start" /\ ev.fail /= "none")
    => /\ ev.start_ret = -1
       /\ ~halow_started
       /\ pc = "idle"
       /\ ev.ac_ret = 1

\* C15: when the adapter rejects the enable call, halow_connect returns an
\* error and leaves no PendingAttempt: the pending ssid and password are both
\* empty, so a later Connected callback has no pair to save for that attempt.
C15_RejectedEnableLeavesNoPending ==
    (ev.op \in {"connect", "ac_connect"} /\ ev.enable /\ ev.ret /= 0)
    => /\ ev.ret = -1
       /\ halow_save_pending_ssid = EmptyStr
       /\ halow_save_pending_password = EmptyStr
       /\ halow_connected_ssid = EmptyStr
       /\ ~att_open

C15_Witness ==
    /\ ev.op = "connect"
    /\ ev.enable
    /\ ev.ret = -1
    /\ ev.ssid = Str("a", MAX_SSID_LEN)
    /\ ~ev.pending_same

\* C16: the Connected flag follows the status callbacks alone: a status
\* callback sets it iff it reports Connected, a link Up callback leaves it as
\* it is, a link Down callback clears it; so while the manager is started the
\* flag is set only if the most recent status callback reported Connected.
C16_FlagFollowsStatusCallback ==
    [][/\ ev'.op = "sta_status"
            => (HALOW_CONNECTED_BIT \in bits' <=> ev'.st = MMWLAN_STA_CONNECTED)
       /\ ev'.op = "link_down" => HALOW_CONNECTED_BIT \notin bits'
       /\ ev'.op = "link_up"
            => (HALOW_CONNECTED_BIT \in bits' <=> HALOW_CONNECTED_BIT \in bits)]_vars

\* C17: when the store fails to open, write or commit while the Connected
\* callback of an attempt is handled, the connection still counts: after the
\* callback the Connected flag is set, the shown SSID is the attempt's ssid and
\* the PendingAttempt is cleared.
C17_SaveFailureKeepsConnection ==
    (/\ ev.op = "sta_status"
     /\ ev.st = MMWLAN_STA_CONNECTED
     /\ ev.att_open
     /\ ev.fault \in {"open_rw", "set_ssid", "set_password", "set_valid", "commit"})
    => /\ HALOW_CONNECTED_BIT \in bits
       /\ halow_connected_ssid = drv.args.ssid
       /\ halow_save_pending_ssid = EmptyStr
       /\ halow_save_pending_password = EmptyStr

C17_Witness ==
    /\ ev.op = "sta_status"
    /\ ev.st = MMWLAN_STA_CONNECTED
    /\ ev.att_open
    /\ ev.fault = "commit"
    /\ ev.writes = 3
    /\ ev.commits = 0
    /\ halow_connected_ssid = Str("a", MAX_SSID_LEN)

\* C18: load() returns no credential whenever the store cannot be opened, the
\* valid marker cannot be read or is not 1, or the ssid or the password is
\* missing or unreadable; a start() in any of these cases makes no connect;
\* in particular a record written in part, with no valid marker, is never
\* returned.
C18_LoadRejectsIncompleteRecord ==
    /\ \A f \in LoadFaults \ {"none"} :
          ~halow_load_network_config(nvs, MAX_SSID_LEN, MAX_PASSWORD_LEN, f).ok
    /\ (nvs.valid /= 1 \/ nvs.ssid = NoKey \/ nvs.password = NoKey)
         => \A f \in LoadFaults :
              halow_load_network_config(nvs, MAX_SSID_LEN, MAX_PASSWORD_LEN, f)
                = LoadFail
    /\ (/\ ev.op = "start"
        /\ halow_started
        /\ \/ ev.fault /= "none"
           \/ nvs.valid /= 1
           \/ nvs.ssid = NoKey
           \/ nvs.password = NoKey)
         => /\ ~ev.enable
            /\ pc = "idle"
            /\ attempt = 0

C18_Witness ==
    /\ ev.op = "start"
    /\ halow_started
    /\ ev.ac_ret = -1
    /\ nvs.ssid /= NoKey
    /\ nvs.password = NoKey
    /\ nvs.valid /= 1

\* C19: halow_connect with an empty ssid, or with a password that is given
\* but empty, fails without an adapter call; a call with a password given
\* succeeds only if the password has 1..64 bytes.
C19_EmptyArgumentsRejected ==
    /\ (ev.op = "connect" /\ (ev.ssid = EmptyStr \/ ev.pw = EmptyStr))
         => (ev.ret = -1 /\ ~ev.enable)
    /\ (ev.op = "connect" /\ ev.pw /= NullStr /\ ev.ret = 0)
         => StrLen(ev.pw) \in 1..MAX_PASSWORD_LEN

\* C20: after a status callback that reports Connecting or Disabled, the
\* Connected flag is clear and no PendingAttempt is left: the pending ssid and
\* password are empty.
C20_FailureClearsPending ==
    (ev.op = "sta_status" /\ ev.st \in {MMWLAN_STA_CONNECTING, MMWLAN_STA_DISABLED})
    => /\ HALOW_CONNECTED_BIT \notin bits
       /\ halow_save_pending_ssid = EmptyStr
       /\ halow_save_pending_password = EmptyStr

\* C21: between the return of stop() and the next start(), a status or link
\* callback changes neither the Connected flag, nor the shown SSID, nor the
\* persisted credential.
C21_LateCallbackIgnored ==
    [][(/\ halow_booted
        /\ ~halow_started
        /\ ev'.op \in {"sta_status", "link_up", "link_down"})
         => /\ (HALOW_CONNECTED_BIT \in bits' <=> HALOW_CONNECTED_BIT \in bits)
            /\ halow_connected_ssid' = halow_connected_ssid
            /\ nvs' = nvs]_vars

\* C22: the persisted credential changes only in a step that handles a status
\* callback reporting Connected while a PendingAttempt is present; connect,
\* stop, start and the auto-connect steps, link callbacks and status callbacks
\* reporting Connecting or Disabled leave it as it is.
C22_StoreWrittenOnlyOnConnected ==
    [][nvs' /= nvs
         => /\ ev'.op = "sta_status"
            /\ ev'.st = MMWLAN_STA_CONNECTED
            /\ halow_save_pending_ssid /= EmptyStr
            /\ ev'.writes > 0]_vars

C22_Witness ==
    /\ ev.op = "sta_status"
    /\ ev.st = MMWLAN_STA_CONNECTED
    /\ ev.commits = 1
    /\ ~ev.stored_before
    /\ Persisted(nvs, ev.ssid, ev.pw)

\* C23: while status reports connected the shown SSID is that of the attempt
\* the adapter last reported Connected for: a connect() made while connected
\* leaves the shown SSID alone until a callback comes, and a Connected callback
\* that directly follows a Connecting/Disabled callback, with no connect() in
\* between, shows the SSID of the network the adapter was enabled for.
C23_ShownSsidIsConnectedNetwork ==
    [][/\ (/\ ev'.op \in {"connect", "ac_connect"}
           /\ HALOW_CONNECTED_BIT \in bits
           /\ halow_connected_ssid /= EmptyStr
           /\ HALOW_CONNECTED_BIT \in bits')
            => halow_connected_ssid' = halow_connected_ssid
       /\ (/\ ev'.op = "sta_status"
           /\ ev'.st = MMWLAN_STA_CONNECTED
           /\ ev.op = "sta_status"
           /\ ev.st \in {MMWLAN_STA_CONNECTING, MMWLAN_STA_DISABLED})
            => halow_connected_ssid' = drv.args.ssid]_vars

\* C24: when scan() has been accepted the ScanDone flag is clear, and it stays
\* clear until the completion callback: a flag left set by an earlier scan is
\* not seen by a wait for the later one.
C24_ScanDoneNotStale ==
    (ev.op = "scan" /\ ev.ret = 0) => HALOW_SCAN_DONE_BIT \notin bits


\* C25: when the adapter rejects the scan request, scan() returns an error
\* and the scan session is as it was before the call: the result count has
\* its earlier value and a scan is in progress only if one was before.
C25_RejectedScanRolledBack ==
    (ev.op = "scan" /\ ev.scanreq /\ ev.ret = -1)
      => /\ scan_count = ev.count_before
         /\ ScanInProgress = ev.busy


\* C26: over any sequence of start() and stop() calls, failed ones included,
\* a start() issues the adapter boot call only while no earlier boot call
\* has succeeded.
C26_BootOnlyWhileNotBooted ==
    [][(/\ ev'.op = "start"
        /\ halow_initialized /\ ~halow_started /\ ~halow_booted
        /\ LookupRegulatoryDomain(HALOW_COUNTRY_CODE)
        /\ ev'.fail \in {"boot", "mmipal", "none"})
         => ~drv.booted]_vars


\* C27: the tracked link status changes only in a driver callback, and only
\* along the allowed edges: a Connected callback that directly follows a
\* Disabled callback (the edge Disabled -> Connected) leaves the status as
\* it was.
C27_StatusFollowsAllowedEdges ==
    [][/\ (HALOW_CONNECTED_BIT \in bits' <=> HALOW_CONNECTED_BIT \notin bits)
            => ev'.op \in {"sta_status", "link_up", "link_down"}
       /\ (/\ ev.op = "sta_status" /\ ev.st = MMWLAN_STA_DISABLED
           /\ ev'.op = "sta_status" /\ ev'.st = MMWLAN_STA_CONNECTED)
            => HALOW_CONNECTED_BIT \notin bits']_vars


\* C28: open networks round-trip through the store.  A Connected callback for
\* a pending attempt without password, met by no store failure, leaves the
\* record (ssid, "", valid); start() hands the stored password to the
\* auto-connect loop unchanged; the loop calls connect with the password
\* absent when the stored one is empty, and an accepted enable call then
\* carries OWE;
\* no enable call ever asks for SAE with an empty passphrase.
C28_OpenNetworkRoundTrip ==
    [][/\ (/\ ev'.op = "sta_status" /\ ev'.st = MMWLAN_STA_CONNECTED
           /\ halow_save_pending_ssid /= EmptyStr
           /\ halow_save_pending_password = EmptyStr
           /\ ev'.fault = "none")
            => Persisted(nvs', halow_save_pending_ssid, EmptyStr)
       /\ (ev'.op = "start" /\ pc' = "ac_connect")
            => ac_cred'.password = nvs.password
       /\ (ev'.op = "ac_connect" /\ StrLen(ac_cred.password) = 0)
            => /\ ev'.pw = NullStr
               /\ ev'.ret = 0 => /\ drv'.args.security = "OWE"
                                 /\ drv'.args.passphrase = EmptyStr
       /\ drv'.args.security = "SAE" => StrLen(drv'.args.passphrase) > 0]_vars

C28_Witness ==
    /\ ev.op = "ac_connect" /\ ev.ret = 0 /\ ev.enable /\ ev.pw = NullStr
    /\ drv.args.security = "OWE"
    /\ Persisted(nvs, ev.ssid, NullStr)


\* C29: a Connected callback that comes once a later connect() has recorded
\* its pending ssid and password, and before that call has issued its enable,
\* writes to the store only a pair that an accepted enable call carried: the
\* credentials of the later call, which the adapter has not confirmed, are
\* not persisted.
C29_SavedPairWasEnabled ==
    (/\ ev.op = "sta_status" /\ ev.st = MMWLAN_STA_CONNECTED /\ ev.writes > 0
     /\ pc = "connect_enable")
      => /\ ev.ssid = Truncate(drv.args.ssid, MMWLAN_SSID_MAXLEN)
         /\ ev.pw = Truncate(drv.args.passphrase, MAX_PASSWORD_LEN - 1)

\* C30: an auto-connect attempt succeeds only through a callback delivered
\* after its connect() call: a wait that returns right after the connect()
\* of its attempt, no callback having run in between, does not report
\* success on a Connected flag that was set before.
C30_SuccessNeedsFreshCallback ==
    [][(ev.op = "ac_connect" /\ ev'.op = "ac_wait") => ev'.ac_ret /= 0]_vars


\* The lifecycle with both the connection and the scan operations, for the
\* calls made out of order: every command of the console, the auto-connect
\* loop that start() runs, and the callbacks that move the state the
\* commands must leave alone.
NextOrder ==
    \/ \E ok \in BOOLEAN : TaskHalowInit(ok)
    \/ \E fail \in StartFails : Start(fail, "none")
    \/ \E accept \in BOOLEAN : AcConnect(accept)
    \/ AcWaitReturn
    \/ AcDelayReturn
    \/ Stop
    \/ \E c \in RaceCalls, accept \in BOOLEAN : Connect(c.ssid, c.password, accept)
    \/ \E sta_state \in StaStates : StaStatus(sta_state, "none")
    \/ \E accept \in BOOLEAN : Scan(accept)
    \/ ScanRxLoad
    \/ ScanRxStore
    \/ ScanComplete

SpecOrder == Init /\ [][NextOrder]_vars

\* C31: start() before initialisation, and connect() or scan() while the
\* manager is not started, return an error, make no adapter call and leave
\* the pending pair, the shown SSID, the event flags and the scan count as
\* they were.
C31_OutOfOrderCallsDoNothing ==
    [][(\/ ev'.op = "start" /\ ~halow_initialized
        \/ ev'.op \in {"connect", "scan"} /\ ~halow_started)
         => /\ ev'.ret = -1
            /\ ~ev'.enable /\ ~ev'.scanreq
            /\ drv' = drv
            /\ halow_save_pending_ssid' = halow_save_pending_ssid
            /\ halow_save_pending_password' = halow_save_pending_password
            /\ halow_connected_ssid' = halow_connected_ssid
            /\ bits' = bits
            /\ scan_count' = scan_count
            /\ halow_started' = halow_started
            /\ halow_booted' = halow_booted]_vars

C31_Witness ==
    /\ ev.op = "scan" /\ ev.ret = -1 /\ ~halow_started
    /\ scan_count > 0
    /\ halow_save_pending_ssid /= EmptyStr
    /\ HALOW_SCAN_DONE_BIT \in bits


\* The values the adapter can hand to the status callback: the three states
\* and one value that is none of them.
StaArgs == StaStates \cup {StaDescLen}

\* The connection manager under status callbacks of any value.
NextStatus ==
    \/ \E ok \in BOOLEAN : TaskHalowInit(ok)
    \/ \E fail \in StartFails : Start(fail, "none")
    \/ \E accept \in BOOLEAN : AcConnect(accept)
    \/ AcWaitReturn
    \/ AcDelayReturn
    \/ Stop
    \/ \E c \in RaceCalls, accept \in BOOLEAN : Connect(c.ssid, c.password, accept)
    \/ \E sta_state \in StaArgs : StaStatus(sta_state, "none")

SpecStatus == Init /\ [][NextStatus]_vars

\* C32: whatever value the adapter passes to the status callback, the handler
\* reads the state-description table inside its bounds, and for a value that
\* is none of the three states it fails in a branch of its own and leaves the
\* manager's state as it was.
C32_StatusTableInBounds ==
    [][ev'.op = "sta_status"
         => /\ ~ev'.desc_oob
            /\ ev'.st \notin StaStates
                 => /\ ~ev'.panic
                    /\ bits' = bits
                    /\ halow_connected_ssid' = halow_connected_ssid
                    /\ halow_save_pending_ssid' = halow_save_pending_ssid
                    /\ halow_save_pending_password' = halow_save_pending_password
                    /\ nvs' = nvs]_vars


\* The connection manager with the explicit reset of the credential store.
NextClear ==
    \/ \E ok \in BOOLEAN : TaskHalowInit(ok)
    \/ \E fail \in StartFails : Start(fail, "none")
    \/ \E accept \in BOOLEAN : AcConnect(accept)
    \/ AcWaitReturn
    \/ AcDelayReturn
    \/ Stop
    \/ \E c \in RaceCalls, accept \in BOOLEAN : Connect(c.ssid, c.password, accept)
    \/ \E sta_state \in StaStates, fault \in NvsFaults : StaStatus(sta_state, fault)
    \/ \E fault \in ClearFaults : Clear(fault)

SpecClear == Init /\ [][NextClear]_vars

\* C33: after a successful clear() load() finds no credential, whatever was
\* stored; a start() that comes next runs an auto-connect that returns
\* without a connect(); and no step of connect(), of the status callback or
\* of the auto-connect loop erases the record.
C33_ClearForgetsCredential ==
    [][/\ (ev'.op = "clear" /\ ev'.ret = 0)
            => ~halow_load_network_config(nvs', MAX_SSID_LEN,
                                          MAX_PASSWORD_LEN, "none").ok
       /\ (ev.op = "clear" /\ ev.ret = 0 /\ ev'.op = "start")
            => /\ pc' = "idle"
               /\ drv'.args = drv.args
               /\ (~halow_started /\ halow_started') => ev'.ac_ret = -1
       /\ (ev'.op /= "clear" /\ nvs /= EmptyNvs) => nvs' /= EmptyNvs]_vars

C33_Witness ==
    /\ ev.op = "clear" /\ ev.ret = 0 /\ ev.stored_before
    /\ nvs = EmptyNvs
    /\ halow_started


\* C34: an enable call that connect() issues and the adapter accepts carries
\* SAE with the passphrase when a password was supplied and OWE with no
\* passphrase when none was; connect() ends in the step of the enable call,
\* with the command context free, the event flags untouched and no status
\* callback delivered yet.
C34_ModeFollowsPassword ==
    [][ev'.op = "connect"
         => /\ pc' = "idle"
            /\ bits' = bits
            /\ ev'.ret = 0
                 => /\ ev'.enable
                    /\ awaiting'
                    /\ drv'.args.ssid = ev'.ssid
                    /\ IF ev'.pw /= NullStr /\ StrLen(ev'.pw) > 0
                         THEN /\ drv'.args.security = "SAE"
                              /\ drv'.args.passphrase = ev'.pw
                         ELSE /\ drv'.args.security = "OWE"
                              /\ drv'.args.passphrase = EmptyStr]_vars

C34_Witness ==
    /\ ev.op = "connect" /\ ev.ret = 0 /\ ev.pw = NullStr
    /\ drv.args.security = "OWE"
    /\ awaiting
    /\ HALOW_CONNECTED_BIT \notin bits


\* The two-stage login over the boots of the device.
NextLogin ==
    \/ LoginInit
    \/ \E input \in LoginInputs, read_fault \in ReadFaults,
          verify_fault \in ReadFaults, store_fault \in StoreFaults :
          HandleLoginInput(input, read_fault, verify_fault, store_fault)

SpecLogin == Init /\ [][NextLogin]_vars

\* C35: whatever the inputs and whatever the reads of the credential store
\* answer, store_credentials is never called with the username admin.
C35_AdminNeverRegistered ==
    lev.store_called => lev.store_username /= ADMIN_USERNAME


\* C36: once a username and a password are stored, a call of
\* handle_login_input makes no store_credentials call and leaves the stored
\* pair as it is, read failures included; it returns LOGGED_IN only for the
\* stored pair or the admin pair, and for any other pair at the password
\* stage it returns FAILED with the stage back at USERNAME.
C36_StoredCredentialsKept ==
    (/\ lev.op = "login_input"
     /\ lev.creds_before.username /= NoKey
     /\ lev.creds_before.password /= NoKey)
      => LET stored == /\ lev.username = lev.creds_before.username
                       /\ lev.input = lev.creds_before.password
             admin == lev.username = ADMIN_USERNAME /\ lev.input = ADMIN_PASSWORD
         IN  /\ ~lev.store_called
             /\ creds = lev.creds_before
             /\ lev.ret = LOGIN_STATE_LOGGED_IN => (stored \/ admin)
             /\ (/\ lev.stage = LOGIN_STATE_PASSWORD
                 /\ is_valid_input(lev.input, LOGIN_MAX_PASSWORD_LEN)
                 /\ ~stored /\ ~admin)
                  => /\ lev.ret = LOGIN_STATE_FAILED
                     /\ current_state = LOGIN_STATE_USERNAME

====
